---- MODULE Spec2Model ----
(***************************************************************************)
(* BusinessSathi: the column normalizer and KPI aggregator of              *)
(* app/utils/data_utils.py and the provider clients of app/ai.             *)
(*                                                                         *)
(* Numbers are fixed point: a numeric cell holds thousandths, so 2.5 is    *)
(* 2500 and one cent is 10.  Binary floating point error is not modelled.  *)
(* A timestamp holds hours since an epoch; its day is hours \div 24.       *)
(* A table is a set of column names and a sequence of rows, each row a     *)
(* function from the column names to cells.  Column names of an input      *)
(* table are distinct after header normalization.                          *)
(***************************************************************************)
EXTENDS Integers, Sequences, FiniteSets, TLC

VARIABLES
    pc,        \* position of the pipeline: "raw", "norm", "kpi", or "idle"
    today,     \* the calendar day pd.Timestamp("today") falls on
    raw,       \* the table handed to normalize_transactions
    df,        \* the table normalize_transactions returned
    kpis,      \* the summary compute_kpis returned
    client,    \* the provider client object (OpenAIClient or GeminiClient)
    env,       \* what the client's surroundings are: SDK, backend behaviour
    result,    \* what the last call on the client returned or raised
    ai,        \* the AIClient wrapper: what it was asked for and what it chose
    session    \* the dashboard session: its insights and what the last run showed

vars == << pc, today, raw, df, kpis, client, env, result, ai, session >>

-----------------------------------------------------------------------------
(* Bounds *)

MaxCols == 3
MaxRows == 2
MaxEntries == 3

-----------------------------------------------------------------------------
(* Cells *)

Num(n) == [t |-> "num", n |-> n, s |-> ""]
Str(s) == [t |-> "str", n |-> 0, s |-> s]
NaN == [t |-> "nan", n |-> 0, s |-> ""]
Ts(h) == [t |-> "ts", n |-> h, s |-> ""]
NaT == [t |-> "nat", n |-> 0, s |-> ""]
DayOf(d) == [t |-> "day", n |-> d, s |-> ""]

\* the text pandas writes for the timestamp of hour h; it keeps the hour it spells
TsText(h) == [t |-> "str", n |-> h, s |-> "YYYY-MM-DD HH:MM:SS"]

IsNa(c) == c.t \in {"nan", "nat"}

\* pd.Timestamp("today").normalize(): today at midnight
TodayMidnight(day) == Ts(day * 24)

-----------------------------------------------------------------------------
(* Input tables *)

Headers ==
    {"Order Date", "Item", "Qty", "quantity", "Unit Price", "price", "disc",
     "Cat", "Payment", "Notes"}

NumCells == << Num(2000), Str("abc"), Num(-1500), NaN, Str("7"), Num(2500) >>
DateCells ==
    << Str("2024-01-01 10:00"), Str("garbage"), NaN, Str("2024-01-02 00:00") >>
ProductCells == << Str("Milk"), Str("Bread"), NaN >>
TextCells == << Str("Dairy"), NaN, Str("Snacks") >>

CellsOf(h) ==
    CASE h = "Order Date" -> DateCells
      [] h = "Item" -> ProductCells
      [] h \in {"Cat", "Payment", "Notes"} -> TextCells
      [] OTHER -> NumCells

\* The column under header h whose first row holds the p-th cell of the
\* header's cells; the following rows hold the following cells, cyclically.
ColumnCell(h, p, r) == CellsOf(h)[((p + r - 2) % Len(CellsOf(h))) + 1]

MkTable(cols, n, pat) ==
    [columns |-> cols,
     rows |-> [r \in 1..n |-> [h \in cols |-> ColumnCell(h, pat[h], r)]]]

\* raw is a table of at most MaxCols of the headers and at most MaxRows rows
IsInputTable(t) ==
    \E cols \in SUBSET Headers :
        /\ Cardinality(cols) <= MaxCols
        /\ \E n \in 0..(IF cols = {} THEN 0 ELSE MaxRows) :
             \E pat \in [cols -> 1..6] :
                /\ \A h \in cols : pat[h] <= Len(CellsOf(h))
                /\ t = MkTable(cols, n, pat)

NoTable == [columns |-> {}, rows |-> << >>]

-----------------------------------------------------------------------------
(* normalize_transactions *)

REQUIRED_COLUMNS == << "date", "product", "quantity", "unit_price" >>
OPTIONAL_COLUMNS == << "category", "payment_method", "discount" >>

CanonicalColumns ==
    {"date", "day", "product", "category", "quantity", "unit_price", "discount",
     "revenue", "payment_method"}

\* str(c).strip().lower().replace(" ", "_") on the headers of the model
NormName(h) ==
    CASE h = "Order Date" -> "order_date"
      [] h = "Item" -> "item"
      [] h = "Qty" -> "qty"
      [] h = "Unit Price" -> "unit_price"
      [] h = "Cat" -> "cat"
      [] h = "Payment" -> "payment"
      [] h = "Notes" -> "notes"
      [] OTHER -> h

RenameColumns(t) ==
    LET cols == { NormName(h) : h \in t.columns }
        Old(c) == CHOOSE h \in t.columns : NormName(h) = c
    IN [columns |-> cols,
        rows |-> [r \in 1..Len(t.rows) |-> [c \in cols |-> t.rows[r][Old(c)]]]]

alias_map ==
    [date |-> << "date", "order_date", "txn_date", "timestamp" >>,
     product |-> << "product", "sku", "item", "product_name" >>,
     quantity |-> << "quantity", "qty", "units", "count" >>,
     unit_price |-> << "unit_price", "price", "selling_price", "unitprice" >>,
     discount |-> << "discount", "discount_amount", "disc" >>,
     category |-> << "category", "cat" >>,
     payment_method |-> << "payment_method", "payment", "pay_method", "paymenttype" >>]

None == "<None>"

\* a variant that binds the last alias present
RECURSIVE find_last(_, _)
find_last(cols, columns) ==
    IF cols = << >> THEN None
    ELSE IF find_last(Tail(cols), columns) # None THEN find_last(Tail(cols), columns)
    ELSE IF Head(cols) \in columns THEN Head(cols)
    ELSE None

RECURSIVE find_first(_, _)
find_first(cols, columns) ==
    IF cols = << >> THEN None
    ELSE IF Head(cols) \in columns THEN Head(cols)
    ELSE find_first(Tail(cols), columns)

mapped(t) == [k \in DOMAIN alias_map |-> find_first(alias_map[k], t.columns)]

\* df[name] = value, value a cell for each row
SetColumn(t, name, value(_)) ==
    [columns |-> t.columns \cup {name},
     rows |-> [r \in 1..Len(t.rows) |->
                 [c \in t.columns \cup {name} |->
                    IF c = name THEN value(t.rows[r]) ELSE t.rows[r][c]]]]

\* a variant whose default quantity is 0
DefaultCell_QuantityZero(t, target, day, row) ==
    CASE target = "date" -> TodayMidnight(day)
      [] target = "product" ->
            IF "product" \in t.columns THEN row["product"] ELSE Str("Unknown")
      [] target \in {"quantity", "unit_price", "discount"} -> Num(0)
      [] OTHER -> NaN

\* the default of an absent target (lines 70-82)
DefaultCell(t, target, day, row) ==
    CASE target = "date" -> TodayMidnight(day)
      [] target = "product" ->
            IF "product" \in t.columns THEN row["product"] ELSE Str("Unknown")
      [] target = "quantity" -> Num(1000)
      [] target = "unit_price" -> Num(0)
      [] target = "discount" -> Num(0)
      [] OTHER -> NaN

RECURSIVE CreateColumns(_, _, _, _)
CreateColumns(t, m, targets, day) ==
    IF targets = << >> THEN t
    ELSE LET target == Head(targets)
             src == m[target]
             Copy(row) == row[src]
             Default(row) == DefaultCell(t, target, day, row)
         IN CreateColumns(
                IF src # None /\ src \in t.columns
                THEN SetColumn(t, target, Copy)
                ELSE SetColumn(t, target, Default),
                m, Tail(targets), day)

ParsesAsNumber(s) == s \in {"7", "2.5"}
ParseNumber(s) == CASE s = "7" -> 7000 [] s = "2.5" -> 2500

\* pd.to_numeric(column, errors="coerce"), cell by cell
to_numeric(c) ==
    CASE c.t = "num" -> c
      [] c.t = "str" -> IF ParsesAsNumber(c.s) THEN Num(ParseNumber(c.s)) ELSE NaN
      [] c.t = "nan" -> NaN

fillna(c, v) == IF IsNa(c) THEN v ELSE c

\* astype(int): truncation toward zero
astype_int(c) ==
    Num(IF c.n >= 0 THEN (c.n \div 1000) * 1000 ELSE -(((-c.n) \div 1000) * 1000))

\* astype(str) on the product column
astype_str(c) ==
    CASE c.t = "str" -> c
      [] c.t = "nan" -> Str("nan")

ParsesAsDate(s) == s \in {"2024-01-01 10:00", "2024-01-02 00:00"}
ParseDate(s) == CASE s = "2024-01-01 10:00" -> 34 [] s = "2024-01-02 00:00" -> 48

\* pd.to_datetime(column, errors="coerce"), cell by cell
to_datetime(c) ==
    CASE c.t = "ts" -> c
      [] c.t = "str" -> IF c = TsText(c.n) THEN Ts(c.n)
                        ELSE IF ParsesAsDate(c.s) THEN Ts(ParseDate(c.s)) ELSE NaT
      [] c.t \in {"nan", "nat"} -> NaT

\* a variant that fills an unparseable quantity with the default 1
CoerceQuantity_FillsOne(c) == astype_int(fillna(to_numeric(c), Num(1000)))

CoerceQuantity(c) == astype_int(fillna(to_numeric(c), Num(0)))
CoerceAmount(c) == fillna(to_numeric(c), Num(0))
CoerceDate(c, day) == fillna(to_datetime(c), TodayMidnight(day))

\* lines 84-91
CoerceTypes(t, day) ==
    [columns |-> t.columns,
     rows |-> [r \in 1..Len(t.rows) |->
                 [c \in t.columns |->
                    LET v == t.rows[r][c]
                    IN CASE c = "quantity" -> CoerceQuantity(v)
                         [] c \in {"unit_price", "discount"} -> CoerceAmount(v)
                         [] c = "product" -> astype_str(v)
                         [] c = "date" -> CoerceDate(v, day)
                         [] OTHER -> v]]]

\* a variant that adds the discount
Revenue_AddsDiscount(row) ==
    Num((row["quantity"].n \div 1000) * row["unit_price"].n
        + fillna(row["discount"], Num(0)).n)

\* line 94: quantity * unit_price - discount.fillna(0.0)
Revenue(row) ==
    Num((row["quantity"].n \div 1000) * row["unit_price"].n
        - fillna(row["discount"], Num(0)).n)

\* line 95
DayKey(row) == DayOf(row["date"].n \div 24)

\* a variant that returns every column
SelectColumns_KeepsAll(t, cols) == t

\* lines 96-98
SelectColumns(t, cols) ==
    [columns |-> cols,
     rows |-> [r \in 1..Len(t.rows) |-> [c \in cols |-> t.rows[r][c]]]]

normalize_transactions(t, day) ==
    LET renamed == RenameColumns(t)
        created == CreateColumns(renamed, mapped(renamed),
                                 REQUIRED_COLUMNS \o OPTIONAL_COLUMNS, day)
        coerced == CoerceTypes(created, day)
        derived == SetColumn(SetColumn(coerced, "revenue", Revenue), "day", DayKey)
    IN SelectColumns(derived, CanonicalColumns)

-----------------------------------------------------------------------------
(* Tables whose source already uses the canonical headers, as the manual   *)
(* entry form and the bundled samples do                                   *)

EntryColumns ==
    {"date", "product", "quantity", "unit_price", "category", "discount",
     "payment_method"}

\* product and category of an entry; the last category is the text "nan"
EntryLabels ==
    { << Str("A"), Str("Dairy") >>, << Str("B"), Str("Snacks") >>,
      << Str("A"), NaN >>, << Str("B"), Str("nan") >> }

\* quantity, unit_price and discount of an entry
EntryAmounts ==
    { << 1000, 10000, 0 >>, << 2000, 10000, 0 >>, << 1000, 5000, 0 >>,
      << 1000, 125, 0 >> }

EntryRow(l, a) ==
    [c \in EntryColumns |->
        CASE c = "date" -> Ts(24)
          [] c = "product" -> l[1]
          [] c = "category" -> l[2]
          [] c = "quantity" -> Num(a[1])
          [] c = "unit_price" -> Num(a[2])
          [] c = "discount" -> Num(a[3])
          [] OTHER -> Str("Cash")]

EntryRows == { EntryRow(l, a) : l \in EntryLabels, a \in EntryAmounts }

\* raw is a table of at most MaxEntries entries
IsEntryTable(t) ==
    \E n \in 0..MaxEntries :
        \E rs \in [1..n -> EntryRows] :
            t = [columns |-> EntryColumns, rows |-> rs]

-----------------------------------------------------------------------------
(* compute_kpis *)

KpiKeys ==
    {"total_revenue", "total_orders", "avg_order_value", "top_product",
     "top_category"}

\* df.empty: no rows or no columns
Empty(t) == Len(t.rows) = 0 \/ t.columns = {}

RECURSIVE SumRevenue(_)
SumRevenue(rows) ==
    IF rows = << >> THEN 0
    ELSE Head(rows)["revenue"].n + SumRevenue(Tail(rows))

\* the labels of the model in Python's string order
LabelOrder ==
    << "A", "B", "Bread", "Dairy", "Milk", "Snacks", "Unknown", "nan" >>

Rank(label) == CHOOSE i \in 1..Len(LabelOrder) : LabelOrder[i] = label

\* df.groupby(col)["revenue"].sum(): one group for each value of col that
\* is not missing
GroupKeys(t, col) ==
    { t.rows[r][col].s : r \in { i \in 1..Len(t.rows) : ~IsNa(t.rows[i][col]) } }

GroupSum(t, col, key) ==
    LET InGroup(row) == ~IsNa(row[col]) /\ row[col].s = key
    IN SumRevenue(SelectSeq(t.rows, InGroup))

\* a variant that sorts ascending
TopGroup_Ascending(t, col) ==
    CHOOSE k \in GroupKeys(t, col) :
        \A j \in GroupKeys(t, col) :
            \/ GroupSum(t, col, k) < GroupSum(t, col, j)
            \/ GroupSum(t, col, k) = GroupSum(t, col, j) /\ Rank(k) <= Rank(j)

\* the first row of t whose col holds key
FirstRow(t, col, key) ==
    CHOOSE r \in 1..Len(t.rows) :
        /\ t.rows[r][col] = Str(key)
        /\ \A q \in 1..(r - 1) : t.rows[q][col] # Str(key)

\* a variant that keeps the groups in order of first appearance
TopGroup_FirstSeen(t, col) ==
    CHOOSE k \in GroupKeys(t, col) :
        \A j \in GroupKeys(t, col) :
            \/ GroupSum(t, col, k) > GroupSum(t, col, j)
            \/ /\ GroupSum(t, col, k) = GroupSum(t, col, j)
               /\ FirstRow(t, col, k) <= FirstRow(t, col, j)

\* .sort_values(ascending=False).index[0]: the group of the largest sum, the
\* first of them in group order when several are largest
TopGroup(t, col) ==
    CHOOSE k \in GroupKeys(t, col) :
        \A j \in GroupKeys(t, col) :
            \/ GroupSum(t, col, k) > GroupSum(t, col, j)
            \/ GroupSum(t, col, k) = GroupSum(t, col, j) /\ Rank(k) <= Rank(j)

\* the integer nearest to num / den, den > 0, halves to the even neighbour
RoundHalfEven(num, den) ==
    LET q == num \div den
        r == num % den
    IN IF 2 * r < den THEN q
       ELSE IF 2 * r > den THEN q + 1
       ELSE IF q % 2 = 0 THEN q ELSE q + 1

\* round(x, 2) of x thousandths
Round2(x) == 10 * RoundHalfEven(x, 10)

TopCategory(t) ==
    IF GroupKeys(t, "category") = {} THEN None
    ELSE IF TopGroup(t, "category") # "nan" THEN TopGroup(t, "category")
    ELSE None

\* a variant whose summary of an empty table lacks the top entries
compute_kpis_PartialWhenEmpty(t) ==
    IF Empty(t)
    THEN [total_revenue |-> 0, total_orders |-> 0, avg_order_value |-> 0]
    ELSE [total_revenue |-> Round2(SumRevenue(t.rows)),
          total_orders |-> Len(t.rows),
          avg_order_value |-> 10 * RoundHalfEven(SumRevenue(t.rows), 10 * Len(t.rows)),
          top_product |-> TopGroup(t, "product"),
          top_category |-> TopCategory(t)]

compute_kpis(t) ==
    IF Empty(t)
    THEN [total_revenue |-> 0, total_orders |-> 0, avg_order_value |-> 0,
          top_product |-> None, top_category |-> None]
    ELSE LET total_revenue == SumRevenue(t.rows)
             total_orders == Len(t.rows)
         IN [total_revenue |-> Round2(total_revenue),
             total_orders |-> total_orders,
             avg_order_value |->
                 IF total_orders # 0
                 THEN 10 * RoundHalfEven(total_revenue, 10 * total_orders)
                 ELSE 0,
             top_product |->
                 IF GroupKeys(t, "product") = {} THEN None
                 ELSE TopGroup(t, "product"),
             top_category |-> TopCategory(t)]

-----------------------------------------------------------------------------
(* The pipeline: a table is normalized, then aggregated *)

Days == {5}

NoKpis == [unset |-> TRUE]
NoClient == [kind |-> "none"]
NoEnv == [kind |-> "none"]
NoResult == [op |-> "none"]
NoAI == [provider |-> "none"]
NoSession == [event |-> "none"]

PipelineInit ==
    /\ pc = "raw"
    /\ today \in Days
    /\ df = NoTable
    /\ kpis = NoKpis
    /\ client = NoClient
    /\ env = NoEnv
    /\ result = NoResult
    /\ ai = NoAI
    /\ session = NoSession

Normalize ==
    /\ pc = "raw"
    /\ df' = normalize_transactions(raw, today)
    /\ pc' = "norm"
    /\ UNCHANGED << today, raw, kpis, client, env, result, ai, session >>

ComputeKpis ==
    /\ pc = "norm"
    /\ kpis' = compute_kpis(df)
    /\ pc' = "kpi"
    /\ UNCHANGED << today, raw, df, client, env, result, ai, session >>

PipelineNext == Normalize \/ ComputeKpis

Init == IsInputTable(raw) /\ PipelineInit
Next == PipelineNext
Spec == Init /\ [][Next]_vars

KpiInit == IsEntryTable(raw) /\ PipelineInit
SpecKpi == KpiInit /\ [][PipelineNext]_vars

-----------------------------------------------------------------------------
(* Provider clients: OpenAIClient and GeminiClient *)

\* what surrounds a client: whether each SDK imported, the credentials of
\* the process environment, and whether creating a backend handle succeeds
Environments ==
    [openai_sdk : BOOLEAN, genai_sdk : BOOLEAN,
     OPENAI_API_KEY : {None, "", "sk-env"}, GEMINI_API_KEY : {None, "", "g-env"},
     openai_handle_ok : BOOLEAN, genai_handle_ok : BOOLEAN]

ApiKeyArgs == {None, "", " ", "key-arg"}

\* Python's truth of an optional string
Truthy(x) == x \notin {None, ""}

\* str.strip() on the credentials of the model
Strip(x) == IF x = " " THEN "" ELSE x

\* a or b or ""
FirstTruthy(a, b) == IF Truthy(a) THEN a ELSE IF Truthy(b) THEN b ELSE ""

\* a variant that does not read force_mock
OpenAIClient_init_IgnoresForceMock(api_key, force_mock, e) ==
    LET key == Strip(FirstTruthy(api_key, e.OPENAI_API_KEY))
        available == Truthy(key) /\ e.openai_sdk
    IN [kind |-> "OpenAI", api_key |-> key, force_mock |-> force_mock,
        is_available |-> available /\ e.openai_handle_ok,
        handle |-> IF available /\ e.openai_handle_ok THEN "OpenAI()" ELSE None]

\* OpenAIClient.__init__
OpenAIClient_init(api_key, force_mock, e) ==
    LET key == Strip(FirstTruthy(api_key, e.OPENAI_API_KEY))
        available == Truthy(key) /\ e.openai_sdk /\ ~force_mock
    IN IF available
       THEN IF e.openai_handle_ok
            THEN [kind |-> "OpenAI", api_key |-> key, force_mock |-> force_mock,
                  is_available |-> TRUE, handle |-> "OpenAI()"]
            ELSE [kind |-> "OpenAI", api_key |-> key, force_mock |-> force_mock,
                  is_available |-> FALSE, handle |-> None]
       ELSE [kind |-> "OpenAI", api_key |-> key, force_mock |-> force_mock,
             is_available |-> FALSE, handle |-> None]

\* a variant whose except branch drops the handle but keeps is_available
GeminiClient_init_KeepsAvailable(api_key, force_mock, e) ==
    LET key == Strip(FirstTruthy(api_key, e.GEMINI_API_KEY))
        available == Truthy(key) /\ e.genai_sdk /\ ~force_mock
    IN [kind |-> "Gemini", api_key |-> key, force_mock |-> force_mock,
        is_available |-> available,
        handle |-> IF available /\ e.genai_handle_ok THEN "GenerativeModel()" ELSE None]

\* GeminiClient.__init__
GeminiClient_init(api_key, force_mock, e) ==
    LET key == Strip(FirstTruthy(api_key, e.GEMINI_API_KEY))
        available == Truthy(key) /\ e.genai_sdk /\ ~force_mock
    IN IF available
       THEN IF e.genai_handle_ok
            THEN [kind |-> "Gemini", api_key |-> key, force_mock |-> force_mock,
                  is_available |-> TRUE, handle |-> "GenerativeModel()"]
            ELSE [kind |-> "Gemini", api_key |-> key, force_mock |-> force_mock,
                  is_available |-> FALSE, handle |-> None]
       ELSE [kind |-> "Gemini", api_key |-> key, force_mock |-> force_mock,
             is_available |-> FALSE, handle |-> None]

\* What a call did: it returned value (and flag, for a pair) or raised exc,
\* after issuing requests backend requests; backend is how the backend
\* answers a request made during the call.
Returned(op, value, requests, backend) ==
    [op |-> op, kind |-> "return", value |-> value, flag |-> FALSE, exc |-> None,
     requests |-> requests, backend |-> backend]

ReturnedPair(op, value, flag, requests, backend) ==
    [op |-> op, kind |-> "return_pair", value |-> value, flag |-> flag, exc |-> None,
     requests |-> requests, backend |-> backend]

Raised(op, exc, requests, backend) ==
    [op |-> op, kind |-> "raise", value |-> None, flag |-> FALSE, exc |-> exc,
     requests |-> requests, backend |-> backend]

\* a text-generation request raises, answers no text, text that is not
\* JSON, the JSON text {}, or a JSON object of insights
GenerateOutcomes == {"raise", "empty", "bad_json", "empty_object", "json"}

\* a transcription request raises, answers no text, or answers text
TranscribeOutcomes == {"raise", "empty", "text"}

\* OpenAIClient._safe_json_loads(content, fallback=self._mock_insights())
OpenAI_safe_json_loads(content) ==
    CASE content = "bad_json" -> "mock_insights"
      [] content = "empty_object" -> "empty_dict"
      [] content = "json" -> "insights"

\* a variant that sends the request again when it raised
OpenAI_generate_business_insights_Retries(c, o) ==
    IF ~c.is_available \/ c.handle = None
    THEN Returned("generate", "mock_insights", 0, o)
    ELSE IF o = "raise" THEN Returned("generate", "mock_insights", 2, o)
    ELSE Returned("generate",
                  OpenAI_safe_json_loads(IF o = "empty" THEN "empty_object" ELSE o),
                  1, o)

\* OpenAIClient.generate_business_insights
OpenAI_generate_business_insights(c, o) ==
    IF ~c.is_available \/ c.handle = None
    THEN Returned("generate", "mock_insights", 0, o)
    ELSE IF o = "raise" THEN Returned("generate", "mock_insights", 1, o)
    ELSE Returned("generate",
                  OpenAI_safe_json_loads(IF o = "empty" THEN "empty_object" ELSE o),
                  1, o)

\* GeminiClient._safe_json_loads(content, fallback={})
Gemini_safe_json_loads(content) ==
    CASE content = "bad_json" -> "empty_dict"
      [] content = "empty_object" -> "empty_dict"
      [] content = "json" -> "insights"

\* GeminiClient.generate_business_insights
Gemini_generate_business_insights(c, o) ==
    IF ~c.is_available \/ c.handle = None
    THEN Raised("generate", "RuntimeError", 0, o)
    ELSE IF o = "raise" THEN Raised("generate", "RuntimeError", 1, o)
    ELSE LET res == Gemini_safe_json_loads(IF o = "empty" THEN "empty_object" ELSE o)
         IN IF res = "empty_dict"
            THEN Raised("generate", "RuntimeError", 1, o)
            ELSE Returned("generate", res, 1, o)

\* OpenAIClient.transcribe_audio: the body ends after the availability test
OpenAI_transcribe_audio(c, o) ==
    IF ~c.is_available \/ c.handle = None
    THEN ReturnedPair("transcribe", "mock_transcript", FALSE, 0, o)
    ELSE Returned("transcribe", None, 0, o)

\* GeminiClient.transcribe_audio: the class defines no _mock_transcript, so
\* each use of it raises AttributeError
Gemini_transcribe_audio(c, o) ==
    IF ~c.is_available \/ c.handle = None
    THEN Raised("transcribe", "AttributeError", 0, o)
    ELSE IF o = "text" THEN ReturnedPair("transcribe", "transcript", TRUE, 1, o)
    ELSE Raised("transcribe", "AttributeError", 1, o)

\* availability_status: three flags read off the object and the module
Status(c, sdk) ==
    [op |-> "status", kind |-> "return", value |-> "status", flag |-> FALSE,
     exc |-> None, requests |-> 0, backend |-> "none",
     has_api_key |-> Truthy(c.api_key), sdk_installed |-> sdk,
     using_mock |-> ~c.is_available]

OpenAI_availability_status(c, e) == Status(c, e.openai_sdk)

Gemini_availability_status(c, e) == Status(c, e.genai_sdk)

\* a variant in which a call that raised marks the client unavailable
AfterCall_MarksUnavailable(c, res) ==
    IF res.kind = "raise" THEN [c EXCEPT !.is_available = FALSE] ELSE c

\* the client object after a call with outcome res: generate_business_insights,
\* transcribe_audio and availability_status assign no attribute of self
AfterCall(c, res) == c

ClientInit ==
    /\ pc = "uninitialized"
    /\ today \in Days
    /\ raw = NoTable
    /\ df = NoTable
    /\ kpis = NoKpis
    /\ client = NoClient
    /\ env \in Environments
    /\ result = NoResult
    /\ ai = NoAI
    /\ session = NoSession

ConstructOpenAI ==
    /\ pc = "uninitialized"
    /\ \E api_key \in ApiKeyArgs, force_mock \in BOOLEAN :
         client' = OpenAIClient_init(api_key, force_mock, env)
    /\ pc' = "ready"
    /\ UNCHANGED << today, raw, df, kpis, env, result, ai, session >>

ConstructGemini ==
    /\ pc = "uninitialized"
    /\ \E api_key \in ApiKeyArgs, force_mock \in BOOLEAN :
         client' = GeminiClient_init(api_key, force_mock, env)
    /\ pc' = "ready"
    /\ UNCHANGED << today, raw, df, kpis, env, result, ai, session >>

GenerateBusinessInsights ==
    /\ pc = "ready"
    /\ \E o \in GenerateOutcomes :
         result' = IF client.kind = "OpenAI"
                   THEN OpenAI_generate_business_insights(client, o)
                   ELSE Gemini_generate_business_insights(client, o)
    /\ client' = AfterCall(client, result')
    /\ UNCHANGED << pc, today, raw, df, kpis, env, ai, session >>

TranscribeAudio ==
    /\ pc = "ready"
    /\ \E o \in TranscribeOutcomes :
         result' = IF client.kind = "OpenAI"
                   THEN OpenAI_transcribe_audio(client, o)
                   ELSE Gemini_transcribe_audio(client, o)
    /\ client' = AfterCall(client, result')
    /\ UNCHANGED << pc, today, raw, df, kpis, env, ai, session >>

AvailabilityStatus ==
    /\ pc = "ready"
    /\ result' = IF client.kind = "OpenAI"
                 THEN OpenAI_availability_status(client, env)
                 ELSE Gemini_availability_status(client, env)
    /\ client' = AfterCall(client, result')
    /\ UNCHANGED << pc, today, raw, df, kpis, env, ai, session >>

ClientNext ==
    \/ ConstructOpenAI
    \/ ConstructGemini
    \/ GenerateBusinessInsights
    \/ TranscribeAudio
    \/ AvailabilityStatus

SpecClient == ClientInit /\ [][ClientNext]_vars

-----------------------------------------------------------------------------
(* build_json_for_ai: the payload handed to the text-generation provider *)

DefaultMaxRows == 50

SampleColumns ==
    {"day", "product", "category", "quantity", "unit_price", "discount", "revenue"}

Min(a, b) == IF a <= b THEN a ELSE b

\* a variant that returns the whole table
head_All(t, n) == t

\* DataFrame.head(n): the first n rows, or all but the last -n when n < 0
head(t, n) ==
    LET len == Len(t.rows)
        k == IF n >= 0 THEN Min(n, len) ELSE IF len + n > 0 THEN len + n ELSE 0
    IN [t EXCEPT !.rows = SubSeq(t.rows, 1, k)]

\* str(datetime.date): the ISO text of the day, a text cell that keeps the
\* day number it spells
DayText(c) == [t |-> "str", n |-> c.n, s |-> "YYYY-MM-DD"]

\* the payload json.dumps serializes
build_json_for_ai(t, k, max_rows) ==
    LET sample == SelectColumns(head(t, max_rows), SampleColumns)
        texted == [r \in 1..Len(sample.rows) |->
                      [sample.rows[r] EXCEPT !["day"] = DayText(@)]]
    IN [kpis |-> k, sample_rows |-> texted]

\* the max_rows a caller passes: counts around the table sizes of the model,
\* and the default
MaxRowsArgs == 0..(MaxEntries + 1) \cup {DefaultMaxRows}

BuildJsonForAI ==
    /\ pc = "kpi"
    /\ \E max_rows \in MaxRowsArgs :
         result' = [op |-> "build_json", max_rows |-> max_rows,
                    payload |-> build_json_for_ai(df, kpis, max_rows)]
    /\ pc' = "json"
    /\ UNCHANGED << today, raw, df, kpis, client, env, ai, session >>

PayloadNext ==
    \/ Normalize
    \/ ComputeKpis
    \/ BuildJsonForAI

SpecPayload == KpiInit /\ [][PayloadNext]_vars

-----------------------------------------------------------------------------
(* The CSV export of the dashboard and read_csv of the loader *)

\* the text pandas writes for a number; it keeps the number it spells
NumText(n) == [t |-> "str", n |-> n, s |-> "<number>"]

\* the field DataFrame.to_csv writes for a cell; a missing cell is an empty field
to_csv_cell(c) ==
    CASE c.t = "num" -> NumText(c.n)
      [] c.t = "str" -> c
      [] c.t = "ts" -> TsText(c.n)
      [] c.t = "day" -> DayText(c)
      [] OTHER -> Str("")

\* to_csv(index=False): a header row and a line of fields for each row
to_csv(t) ==
    [columns |-> t.columns,
     rows |-> [r \in 1..Len(t.rows) |-> [c \in t.columns |-> to_csv_cell(t.rows[r][c])]]]

\* fields read_csv takes for missing values (of its default list, the ones
\* a text of the model can spell)
NaTexts == {"", "nan", "NaN", "NA", "N/A", "null", "None"}

IsNaField(f) == f.s \in NaTexts

IsNumberField(f) == f = NumText(f.n) \/ ParsesAsNumber(f.s)

NumberOfField(f) == IF f = NumText(f.n) THEN f.n ELSE ParseNumber(f.s)

\* pd.read_csv with its defaults: a column whose fields all spell numbers
\* or missing values is numeric, any other column keeps its texts; a
\* missing-value text is NaN in both
read_csv(file) ==
    LET Numeric(c) ==
            \A r \in 1..Len(file.rows) :
                IsNaField(file.rows[r][c]) \/ IsNumberField(file.rows[r][c])
    IN [columns |-> file.columns,
        rows |-> [r \in 1..Len(file.rows) |->
                    [c \in file.columns |->
                       LET f == file.rows[r][c]
                       IN IF IsNaField(f) THEN NaN
                          ELSE IF Numeric(c) THEN Num(NumberOfField(f))
                          ELSE f]]]

RoundTripInit == (IsInputTable(raw) \/ IsEntryTable(raw)) /\ PipelineInit

\* the Download CSV button, then the file uploaded again on the same day
ExportAndReload ==
    /\ pc = "norm"
    /\ result' = [op |-> "reload", csv |-> to_csv(df),
                  table |-> normalize_transactions(read_csv(to_csv(df)), today)]
    /\ pc' = "reloaded"
    /\ UNCHANGED << today, raw, df, kpis, client, env, ai, session >>

RoundTripNext ==
    \/ Normalize
    \/ ExportAndReload

SpecRoundTrip == RoundTripInit /\ [][RoundTripNext]_vars

-----------------------------------------------------------------------------
(* The provider selector: AIClient of client_factory.py *)

AIProvider == {"openai", "gemini", "auto"}

NoKeysMessage ==
    "No AI API keys found. Please add GEMINI_API_KEY or OPENAI_API_KEY to your .env file."

\* a or b
Or(a, b) == IF Truthy(a) THEN a ELSE b

\* what a selection did: the client and provider name it returned, or raised
\* with no client, and the providers it instantiated, in order
Selected(c, name, tried) ==
    [raised |-> FALSE, client |-> c, provider_name |-> name, tried |-> tried]

NotSelected(tried) ==
    [raised |-> TRUE, client |-> NoClient, provider_name |-> None, tried |-> tried]

\* a variant that prefers OpenAI
auto_select_provider_OpenAIFirst(api_key, force_mock, e) ==
    LET gemini_key == Or(api_key, e.GEMINI_API_KEY)
        openai_key == Or(api_key, e.OPENAI_API_KEY)
        try_gemini == Truthy(gemini_key) /\ ~force_mock
        try_openai == Truthy(openai_key) /\ ~force_mock
        gemini == GeminiClient_init(gemini_key, force_mock, e)
        openai == OpenAIClient_init(openai_key, force_mock, e)
        first == IF try_openai THEN << "OpenAI" >> ELSE << >>
        both == first \o (IF try_gemini THEN << "Gemini" >> ELSE << >>)
    IN IF try_openai /\ openai.is_available THEN Selected(openai, "OpenAI", first)
       ELSE IF try_gemini /\ gemini.is_available THEN Selected(gemini, "Gemini", both)
       ELSE NotSelected(both)

\* a variant that adopts the first client it builds, available or not
auto_select_provider_AdoptsUnchecked(api_key, force_mock, e) ==
    LET gemini_key == Or(api_key, e.GEMINI_API_KEY)
        openai_key == Or(api_key, e.OPENAI_API_KEY)
    IN IF Truthy(gemini_key)
       THEN Selected(GeminiClient_init(gemini_key, force_mock, e), "Gemini", << "Gemini" >>)
       ELSE IF Truthy(openai_key)
       THEN Selected(OpenAIClient_init(openai_key, force_mock, e), "OpenAI", << "OpenAI" >>)
       ELSE NotSelected(<< >>)

\* AIClient._auto_select_provider
auto_select_provider(api_key, force_mock, e) ==
    LET gemini_key == Or(api_key, e.GEMINI_API_KEY)
        openai_key == Or(api_key, e.OPENAI_API_KEY)
        try_gemini == Truthy(gemini_key) /\ ~force_mock
        try_openai == Truthy(openai_key) /\ ~force_mock
        gemini == GeminiClient_init(gemini_key, force_mock, e)
        openai == OpenAIClient_init(openai_key, force_mock, e)
        first == IF try_gemini THEN << "Gemini" >> ELSE << >>
        both == first \o (IF try_openai THEN << "OpenAI" >> ELSE << >>)
    IN IF try_gemini /\ gemini.is_available THEN Selected(gemini, "Gemini", first)
       ELSE IF try_openai /\ openai.is_available THEN Selected(openai, "OpenAI", both)
       ELSE NotSelected(both)

\* AIClient._init_openai
init_openai(api_key, force_mock, e) ==
    Selected(OpenAIClient_init(api_key, force_mock, e), "OpenAI", << "OpenAI" >>)

\* AIClient._init_gemini
init_gemini(api_key, force_mock, e) ==
    Selected(GeminiClient_init(api_key, force_mock, e), "Gemini", << "Gemini" >>)

\* AIClient._initialize_client
initialize_client(provider, api_key, force_mock, e) ==
    CASE provider = "auto" -> auto_select_provider(api_key, force_mock, e)
      [] provider = "openai" -> init_openai(api_key, force_mock, e)
      [] provider = "gemini" -> init_gemini(api_key, force_mock, e)

\* AIClient.availability_status: the client's status with two more entries
AIClient_availability_status(a, c, e) ==
    [provider |-> a.provider_name, provider_type |-> a.provider] @@
    (IF c.kind = "OpenAI" THEN OpenAI_availability_status(c, e)
     ELSE Gemini_availability_status(c, e))

FactoryInit ==
    /\ pc = "uninitialized"
    /\ today \in Days
    /\ raw = NoTable
    /\ df = NoTable
    /\ kpis = NoKpis
    /\ client = NoClient
    /\ env \in Environments
    /\ result = NoResult
    /\ ai = NoAI
    /\ session = NoSession

\* AIClient.__init__: the object exists ("ready") unless the selection raised
ConstructAIClient ==
    /\ pc = "uninitialized"
    /\ \E provider \in AIProvider, api_key \in ApiKeyArgs, force_mock \in BOOLEAN :
         LET sel == initialize_client(provider, api_key, force_mock, env)
         IN /\ ai' = [provider |-> provider, api_key |-> api_key,
                      force_mock |-> force_mock,
                      provider_name |-> sel.provider_name, tried |-> sel.tried]
            /\ client' = sel.client
            /\ pc' = IF sel.raised THEN "failed" ELSE "ready"
            /\ result' = IF sel.raised
                         THEN [Raised("construct", "RuntimeError", 0, "none")
                                  EXCEPT !.value = NoKeysMessage]
                         ELSE Returned("construct", None, 0, "none")
    /\ UNCHANGED << today, raw, df, kpis, env, session >>

AIClientAvailabilityStatus ==
    /\ pc = "ready"
    /\ ai # NoAI
    /\ result' = AIClient_availability_status(ai, client, env)
    /\ client' = AfterCall(client, result')
    /\ UNCHANGED << pc, today, raw, df, kpis, env, ai, session >>

FactoryNext ==
    \/ ConstructAIClient
    \/ GenerateBusinessInsights
    \/ TranscribeAudio
    \/ AIClientAvailabilityStatus

SpecFactory == FactoryInit /\ [][FactoryNext]_vars

-----------------------------------------------------------------------------
(* The dashboard: one action for each run of the Streamlit script *)

\* the empty dict {} of kpis, and of insights
EmptyDict == [empty |-> TRUE]
EmptyInsights == "empty_dict"

\* the rows that uploaded files and the bundled sample hold
SessionRows ==
    { EntryRow(<< Str("A"), Str("Dairy") >>, << 1000, 10000, 0 >>),
      EntryRow(<< Str("B"), NaN >>, << 2000, 10000, 0 >>) }

\* the files of at most one row more than the session's table may hold
UploadSizes == {0, 1, 2}

\* an uploaded file: whether read_csv succeeds at the first and at the second
\* attempt, and the fields it holds when it can be read
Readable(first, rs) ==
    [first_ok |-> first, second_ok |-> TRUE,
     fields |-> to_csv([columns |-> EntryColumns, rows |-> rs])]

Unreadable == [first_ok |-> FALSE, second_ok |-> FALSE, fields |-> NoTable]

UploadedFiles ==
    {Unreadable} \cup
    { Readable(first, rs) :
        first \in BOOLEAN, rs \in UNION { [1..n -> SessionRows] : n \in UploadSizes } }

\* load_transactions_from_csv: the normalized table, or ValueError
load_transactions_from_csv(f, day) ==
    IF f.first_ok \/ f.second_ok
    THEN [raised |-> FALSE, attempts |-> IF f.first_ok THEN 1 ELSE 2,
          table |-> normalize_transactions(read_csv(f.fields), day)]
    ELSE [raised |-> TRUE, attempts |-> 2, table |-> NoTable]

\* no file was loaded
NoLoad == [raised |-> FALSE, attempts |-> 0]

\* load_sample_data: the bundled file normalized, or an empty frame when the
\* file is not there
load_sample_data(found, day) ==
    IF found
    THEN normalize_transactions(
             read_csv(to_csv([columns |-> EntryColumns,
                              rows |-> << EntryRow(<< Str("B"), NaN >>, << 2000, 10000, 0 >>),
                                          EntryRow(<< Str("A"), Str("Dairy") >>,
                                                   << 1000, 10000, 0 >>) >>])),
             day)
    ELSE NoTable

\* what the manual entry form submits: product and category texts, unit price
Forms == [product : {"", "A"}, category : {"", "Dairy"}, unit_price : {0, 10000}]

\* the one-row frame of lines 160-168; quantity 1, discount 0, payment Cash
new_row(form) ==
    [columns |-> EntryColumns,
     rows |-> << EntryRow(<< Str(form.product),
                             IF form.category # "" THEN Str(form.category) ELSE NaN >>,
                          << 1000, form.unit_price, 0 >>) >>]

\* generate_business_insights of the session's client
generate_business_insights(c, o) ==
    IF c.kind = "OpenAI" THEN OpenAI_generate_business_insights(c, o)
    ELSE Gemini_generate_business_insights(c, o)

\* a variant that lets the provider's exception out
process_transactions_NoTry(t, c, o) ==
    IF Empty(t)
    THEN [raised |-> FALSE, kpis |-> EmptyDict, insights |-> EmptyInsights,
          caught |-> FALSE, call |-> NoResult]
    ELSE LET res == generate_business_insights(c, o)
         IN [raised |-> res.kind = "raise", kpis |-> compute_kpis(t),
             insights |-> IF res.kind = "raise" THEN EmptyInsights ELSE res.value,
             caught |-> FALSE, call |-> res]

\* process_transactions: raised tells whether an exception left the function,
\* caught whether the except branch ran, call what the provider call did
process_transactions(t, c, o) ==
    IF Empty(t)
    THEN [raised |-> FALSE, kpis |-> EmptyDict, insights |-> EmptyInsights,
          caught |-> FALSE, call |-> NoResult]
    ELSE LET res == generate_business_insights(c, o)
         IN [raised |-> FALSE, kpis |-> compute_kpis(t),
             insights |-> IF res.kind = "raise" THEN EmptyInsights ELSE res.value,
             caught |-> res.kind = "raise", call |-> res]

\* render_main_content on table t, the session holding kpis k and insights
\* ins: what the session holds afterwards and the sections the page shows
render_main_content(t, k, ins, c, o) ==
    IF Empty(t)
    THEN [raised |-> FALSE, kpis |-> k, insights |-> ins, shown |-> {"info"},
          errors |-> {}, call |-> NoResult]
    ELSE LET p == process_transactions(t, c, o)
         IN IF p.raised
            THEN [raised |-> TRUE, kpis |-> k, insights |-> ins, shown |-> {},
                  errors |-> {}, call |-> p.call]
            ELSE [raised |-> FALSE, kpis |-> p.kpis, insights |-> p.insights,
                  shown |-> {"kpis", "charts"} \cup
                            (IF p.insights = EmptyInsights THEN {"warning"}
                             ELSE {"insights", "export"}),
                  errors |-> IF p.caught THEN {"ai_error"} ELSE {},
                  call |-> p.call]

\* the rest of a run once the sidebar left table t, kpis k and insights ins
\* in the session and showed the sidebar messages; the page of an empty table
\* makes no provider call, so one outcome stands for all
Rendered(event, t, k, ins, sidebar, load) ==
    \E o \in IF Empty(t) THEN {"json"} ELSE GenerateOutcomes :
        LET page == render_main_content(t, k, ins, client, o)
        IN /\ df' = t
           /\ kpis' = page.kpis
           /\ result' = page.call
           /\ session' = [event |-> event, insights |-> page.insights,
                          raised |-> page.raised, sidebar |-> sidebar,
                          load |-> [raised |-> load.raised, attempts |-> load.attempts],
                          shown |-> page.shown, errors |-> page.errors]

\* the environments of the dashboard: the session builds a Gemini client,
\* which reads nothing of the OpenAI settings; the SDK is installed, and the
\* key is set or not
SessionEnvironments ==
    { e \in Environments :
        /\ ~e.openai_sdk /\ e.OPENAI_API_KEY = None /\ ~e.openai_handle_ok
        /\ e.genai_sdk /\ e.GEMINI_API_KEY # "" }

\* the session after the first run: initialize_session_state, an untouched
\* sidebar, and the page of an empty table
SessionInit ==
    /\ pc = "session"
    /\ today \in Days
    /\ raw = NoTable
    /\ df = NoTable
    /\ kpis = EmptyDict
    /\ env \in SessionEnvironments
    /\ client = init_gemini(None, FALSE, env).client
    /\ ai = [provider |-> "gemini", api_key |-> None, force_mock |-> FALSE,
             provider_name |-> "Gemini", tried |-> << "Gemini" >>]
    /\ result = NoResult
    /\ session = [event |-> "start", insights |-> EmptyInsights, raised |-> FALSE,
                  sidebar |-> {}, load |-> NoLoad, shown |-> {"info"}, errors |-> {}]

\* a variant of the upload branch that drops the table when the load fails
AfterUpload_ClearsOnFailure(t, loaded) ==
    IF loaded.raised THEN NoTable ELSE loaded.table

\* the table the upload branch leaves in the session (lines 139-145)
AfterUpload(t, loaded) ==
    IF loaded.raised THEN t ELSE loaded.table

\* a run with a file in the uploader
RunUpload ==
    /\ pc = "session"
    /\ \E f \in UploadedFiles :
         LET loaded == load_transactions_from_csv(f, today)
         IN Rendered(IF loaded.raised THEN "upload_failed" ELSE "upload",
                     AfterUpload(df, loaded), kpis, session.insights,
                     IF loaded.raised THEN {"error_loading_file"} ELSE {"loaded"},
                     loaded)
    /\ UNCHANGED << pc, today, raw, client, env, ai >>

\* line 159: the form's entry is taken
Accepted(form) == form.product # "" /\ form.unit_price > 0

\* a variant that puts the new row first
AfterManualEntry_Prepends(t, form, day) ==
    LET row == normalize_transactions(new_row(form), day)
    IN IF ~Accepted(form) THEN t
       ELSE IF Empty(t) THEN row
       ELSE [t EXCEPT !.rows = row.rows \o t.rows]

\* the table the form leaves in the session (lines 159-177): the normalized
\* row alone when the table is empty, else pd.concat of the table and the row
AfterManualEntry(t, form, day) ==
    LET row == normalize_transactions(new_row(form), day)
    IN IF ~Accepted(form) THEN t
       ELSE IF Empty(t) THEN row
       ELSE [t EXCEPT !.rows = t.rows \o row.rows]

\* a run in which the manual entry form is submitted; an accepted entry is
\* stored and the script reruns, a rejected one changes nothing
RunManualEntry ==
    /\ pc = "session"
    /\ Len(df.rows) < MaxRows
    /\ \E form \in Forms :
         Rendered(IF Accepted(form) THEN "entry_accepted" ELSE "entry_rejected",
                  AfterManualEntry(df, form, today), kpis, session.insights, {}, NoLoad)
    /\ UNCHANGED << pc, today, raw, client, env, ai >>

\* a run in which Load Sample Data is pressed
RunLoadSample ==
    /\ pc = "session"
    /\ \E found \in BOOLEAN :
         LET sample == load_sample_data(found, today)
         IN IF ~Empty(sample)
            THEN Rendered("sample", sample, kpis, session.insights, {"loaded"}, NoLoad)
            ELSE Rendered("sample_missing", df, kpis, session.insights,
                          {"sample_data_not_found"}, NoLoad)
    /\ UNCHANGED << pc, today, raw, client, env, ai >>

\* a run in which Clear All Data is pressed: the button exists only while
\* the table is not empty; the session is reset and the script reruns
RunClear ==
    /\ pc = "session"
    /\ ~Empty(df)
    /\ Rendered("clear", NoTable, EmptyDict, EmptyInsights, {}, NoLoad)
    /\ UNCHANGED << pc, today, raw, client, env, ai >>

\* a run in which no input widget is used
RunIdle ==
    /\ pc = "session"
    /\ Rendered("idle", df, kpis, session.insights, {}, NoLoad)
    /\ UNCHANGED << pc, today, raw, client, env, ai >>

SessionNext ==
    \/ RunUpload
    \/ RunManualEntry
    \/ RunLoadSample
    \/ RunClear
    \/ RunIdle

SpecSession == SessionInit /\ [][SessionNext]_vars

-----------------------------------------------------------------------------
(* Claims about normalize_transactions *)

Normalized == pc \in {"norm", "kpi"}

\* the cell of raw's row r under the header that normalizes to name
RawCell(r, name) ==
    raw.rows[r][CHOOSE h \in raw.columns : NormName(h) = name]

RawNames == { NormName(h) : h \in raw.columns }

\* the positions of a field's aliases that are among raw's column names
Present(field) ==
    { i \in 1..Len(alias_map[field]) : alias_map[field][i] \in RawNames }

FirstPresent(field) ==
    alias_map[field][CHOOSE i \in Present(field) : \A j \in Present(field) : i <= j]

\* what lines 84-91 make of a source cell of the field
Coerced(field, c) ==
    CASE field = "quantity" -> CoerceQuantity(c)
      [] field \in {"unit_price", "discount"} -> CoerceAmount(c)
      [] field = "product" -> astype_str(c)
      [] field = "date" -> CoerceDate(c, today)
      [] OTHER -> c

\* C1: in every row of the output of normalize_transactions, revenue is
\* quantity * unit_price - discount of the row's own normalized values.
C1_RevenueIsDerived ==
    Normalized =>
        \A r \in 1..Len(df.rows) :
            LET row == df.rows[r]
            IN /\ row["revenue"].t = "num"
               /\ row["revenue"].n * 1000 =
                    row["quantity"].n * row["unit_price"].n - row["discount"].n * 1000

C1_Witness ==
    /\ pc = "norm"
    /\ \E r \in 1..Len(df.rows) :
         /\ df.rows[r]["quantity"].n \notin {0, 1000}
         /\ df.rows[r]["unit_price"].n # 0
         /\ df.rows[r]["discount"].n # 0
         /\ \E h \in raw.columns : NormName(h) = "qty" /\ raw.rows[r][h] = Num(2500)

\* C2: the output of normalize_transactions has exactly the canonical
\* columns, whatever the source columns and the number of rows.
C2_CanonicalColumns ==
    Normalized =>
        /\ df.columns = CanonicalColumns
        /\ \A r \in 1..Len(df.rows) : DOMAIN df.rows[r] = CanonicalColumns

C2_Witness ==
    /\ pc = "norm"
    /\ {"Notes", "Qty"} \subseteq raw.columns
    /\ Len(raw.rows) = 0

\* C3: each canonical field is bound to the first alias of its list that
\* is among the normalized source columns, and takes that column's values.
C3_FirstAliasWins ==
    Normalized =>
        \A field \in DOMAIN alias_map :
            Present(field) # {} =>
                \A r \in 1..Len(df.rows) :
                    df.rows[r][field] = Coerced(field, RawCell(r, FirstPresent(field)))

C3_Witness ==
    /\ pc = "norm"
    /\ {"Unit Price", "price"} \subseteq raw.columns
    /\ \E r \in 1..Len(df.rows) :
         /\ CoerceAmount(raw.rows[r]["Unit Price"]) # CoerceAmount(raw.rows[r]["price"])
         /\ df.rows[r]["unit_price"] = CoerceAmount(raw.rows[r]["Unit Price"])

Unparseable(field, c) ==
    /\ c.t = "str"
    /\ IF field = "date" THEN ~ParsesAsDate(c.s) ELSE ~ParsesAsNumber(c.s)

\* C4: a present cell that does not parse is not rejected: quantity becomes
\* 0, unit_price and discount 0.0, date today, and the row is kept.
C4_UnparseableCellsDegrade ==
    Normalized =>
        /\ Len(df.rows) = Len(raw.rows)
        /\ \A field \in {"quantity", "unit_price", "discount", "date"} :
             Present(field) # {} =>
                \A r \in 1..Len(raw.rows) :
                    Unparseable(field, RawCell(r, FirstPresent(field))) =>
                        df.rows[r][field] =
                            IF field = "date" THEN TodayMidnight(today) ELSE Num(0)

C4_Witness ==
    /\ pc = "norm"
    /\ {"Qty", "Order Date", "disc"} \subseteq raw.columns
    /\ \E r \in 1..Len(raw.rows) :
         /\ raw.rows[r]["Qty"] = Str("abc")
         /\ raw.rows[r]["Order Date"] = Str("garbage")
         /\ raw.rows[r]["disc"] = Str("abc")
         /\ df.rows[r]["quantity"] = Num(0)
         /\ df.rows[r]["date"] = TodayMidnight(today)

CanonicalDefault(field) ==
    CASE field = "date" -> TodayMidnight(today)
      [] field = "product" -> Str("Unknown")
      [] field = "quantity" -> Num(1000)
      [] field \in {"unit_price", "discount"} -> Num(0)
      [] OTHER -> NaN

\* C5: a source that lacks canonical fields normalizes, row for row, and
\* every row holds the canonical default of each absent field.
C5_AbsentFieldsDefault ==
    Normalized =>
        /\ Len(df.rows) = Len(raw.rows)
        /\ \A field \in DOMAIN alias_map :
             Present(field) = {} =>
                \A r \in 1..Len(df.rows) : df.rows[r][field] = CanonicalDefault(field)

C5_Witness ==
    /\ pc = "norm"
    /\ raw.columns = {"Notes"}
    /\ Len(df.rows) = MaxRows
    /\ \A field \in DOMAIN alias_map : df.rows[1][field] = CanonicalDefault(field)

\* C18: every row normalize_transactions returns has quantity >= 0,
\* unit_price >= 0 and discount >= 0, negative source cells included.
C18_AmountsNonNegative ==
    Normalized =>
        \A r \in 1..Len(df.rows) :
            /\ df.rows[r]["quantity"].n >= 0
            /\ df.rows[r]["unit_price"].n >= 0
            /\ df.rows[r]["discount"].n >= 0

\* C15: a normalized table, exported to CSV and loaded again on the same
\* day, normalizes to the very same table.
C15_RoundTripIsIdentity ==
    (pc = "reloaded") => (result.table = df)

-----------------------------------------------------------------------------
(* Claims about compute_kpis *)

Aggregated == pc = "kpi"

\* the revenue of the first n rows of df whose col holds the text key
RECURSIVE RevenueOf(_, _, _)
RevenueOf(n, col, key) ==
    IF n = 0 THEN 0
    ELSE RevenueOf(n - 1, col, key)
         + (IF df.rows[n][col] = Str(key) THEN df.rows[n]["revenue"].n ELSE 0)

RECURSIVE RevenueOfAll(_)
RevenueOfAll(n) ==
    IF n = 0 THEN 0 ELSE RevenueOfAll(n - 1) + df.rows[n]["revenue"].n

\* the texts col holds in the rows of df; a missing cell is no text
TextsOf(col) ==
    { df.rows[r][col].s : r \in { i \in 1..Len(df.rows) : df.rows[i][col].t = "str" } }

\* the texts of col whose rows sum to the highest revenue
Highest(col) ==
    { k \in TextsOf(col) :
        \A j \in TextsOf(col) :
            RevenueOf(Len(df.rows), col, k) >= RevenueOf(Len(df.rows), col, j) }

\* x is y rounded to two decimals: a whole number of cents within half a cent
IsRounded2(x, y, scale) ==
    /\ x % 10 = 0
    /\ 2 * (x * scale - y) <= 10 * scale
    /\ 2 * (y - x * scale) <= 10 * scale

C7_EmptySummary ==
    (Aggregated /\ Len(df.rows) = 0) =>
        /\ DOMAIN kpis = KpiKeys
        /\ kpis = [total_revenue |-> 0, total_orders |-> 0, avg_order_value |-> 0,
                   top_product |-> None, top_category |-> None]

C7_Witness ==
    /\ Aggregated
    /\ Len(df.rows) = 0
    /\ raw.columns # {}
    /\ kpis.total_orders = 0

\* df with its rows in the order p[1], p[2], ...
Reordered(p) == [df EXCEPT !.rows = [i \in 1..Len(df.rows) |-> df.rows[p[i]]]]

\* C16: the summary of a table is the summary of every reordering of its
\* rows; equal group sums are ordered by group key, not by row position.
C16_RowOrderInvariant ==
    Aggregated =>
        \A p \in Permutations(1..Len(df.rows)) : compute_kpis(Reordered(p)) = kpis

\* equal revenue on B (first row) and A (second row): A is the top product
C16_Witness ==
    /\ Aggregated
    /\ Len(df.rows) = 2
    /\ df.rows[1]["product"] = Str("B") /\ df.rows[2]["product"] = Str("A")
    /\ df.rows[1]["revenue"] = df.rows[2]["revenue"]
    /\ kpis.top_product = "A"
    /\ compute_kpis(Reordered(<< 2, 1 >>)).top_product = "A"

-----------------------------------------------------------------------------
(* Claims about build_json_for_ai *)

Built == pc = "json"

\* C17: the payload carries the given summary, and its sample rows are the
\* first min(max_rows, row count) rows of the table, in table order, each
\* with exactly the seven sample fields; they are never more than max_rows.
C17_PayloadIsBoundedPrefix ==
    Built =>
        LET sample == result.payload.sample_rows
        IN /\ result.payload.kpis = kpis
           /\ Len(sample) = Min(result.max_rows, Len(df.rows))
           /\ Len(sample) <= result.max_rows
           /\ \A r \in 1..Len(sample) :
                /\ DOMAIN sample[r] = SampleColumns
                /\ \A c \in SampleColumns \ {"day"} : sample[r][c] = df.rows[r][c]
                /\ sample[r]["day"] = DayText(df.rows[r]["day"])

\* three rows, two asked for
C17_Witness ==
    /\ Built
    /\ Len(df.rows) = 3
    /\ result.max_rows = 2
    /\ Len(result.payload.sample_rows) = 2
    /\ result.payload.sample_rows[2]["product"] = df.rows[2]["product"]
    /\ df.rows[3]["product"] # df.rows[2]["product"]

-----------------------------------------------------------------------------
(* Claims about the provider clients *)

Constructed == pc = "ready"

SdkPresent == IF client.kind = "OpenAI" THEN env.openai_sdk ELSE env.genai_sdk

HandleCreated ==
    IF client.kind = "OpenAI" THEN env.openai_handle_ok ELSE env.genai_handle_ok

\* C8 as stated: after construction is_available is true exactly when the
\* credential is non-empty, the SDK is present and force_mock is false.
C8_AvailableIffConfigured ==
    Constructed =>
        (client.is_available <=>
            (client.api_key # "" /\ SdkPresent /\ ~client.force_mock))

\* C8 amended: ... and the backend handle was created without an error.
C8_AvailableIffConfiguredAndHandle ==
    Constructed =>
        (client.is_available <=>
            (client.api_key # "" /\ SdkPresent /\ ~client.force_mock /\ HandleCreated))

C8_Witness ==
    /\ Constructed
    /\ client.kind = "Gemini"
    /\ client.api_key # ""
    /\ SdkPresent
    /\ ~client.force_mock
    /\ ~HandleCreated
    /\ ~client.is_available

\* C9: generate_business_insights on a client that is not available
\* returns the mocked insights and does not raise, for both providers.
C9_UnavailableGenerateReturnsMock ==
    (Constructed /\ result.op = "generate" /\ ~client.is_available) =>
        /\ result.kind = "return"
        /\ result.value = "mock_insights"

\* C10: transcribe_audio on an unavailable client, or on an available one
\* whose backend request fails, returns (the mock transcript, false) and
\* does not raise, for both providers.
C10_TranscribeFallsBackToMock ==
    (/\ Constructed
     /\ result.op = "transcribe"
     /\ (~client.is_available \/ result.backend = "raise")) =>
        /\ result.kind = "return_pair"
        /\ result.value = "mock_transcript"
        /\ result.flag = FALSE

\* C11: transcribe_audio returns a (text, boolean) pair in every case, and
\* on an available client whose backend answers a non-empty transcript it
\* returns (that transcript, true), for both providers.
C11_TranscribeReturnsPair ==
    (Constructed /\ result.op = "transcribe") =>
        /\ result.kind = "return_pair"
        /\ (client.is_available /\ result.backend = "text") =>
              (result.value = "transcript" /\ result.flag = TRUE)

\* C19: constructing either client always yields a client object, and when
\* the credential, the SDK and force_mock allow a backend but creating the
\* handle fails, the object is in mock state: not available, no handle.
C19_ConstructorFallsBackToMock ==
    Constructed =>
        /\ client.kind \in {"OpenAI", "Gemini"}
        /\ client.handle = None <=> ~client.is_available
        /\ (client.api_key # "" /\ SdkPresent /\ ~client.force_mock /\ ~HandleCreated) =>
              (~client.is_available /\ client.handle = None)

C19_Witness ==
    /\ Constructed
    /\ client.kind = "OpenAI"
    /\ client.api_key = "sk-env"
    /\ SdkPresent
    /\ ~client.force_mock
    /\ ~HandleCreated
    /\ ~client.is_available
    /\ client.handle = None

\* C20: after construction no call changes is_available, whatever the call
\* and its outcome, and availability_status reports using_mock as the
\* negation of is_available.
C20_AvailabilityIsFixed ==
    /\ [][Constructed => (client'.is_available = client.is_available)]_vars
    /\ []((Constructed /\ result.op = "status") =>
            (result.using_mock = ~client.is_available))

C20_Witness ==
    /\ Constructed
    /\ client.is_available
    /\ result.op = "generate"
    /\ result.kind = "raise"

\* C22: a call of generate_business_insights sends one backend request when
\* the client is available and none when it is not, and never a second one,
\* whatever the request's outcome.
C22_OneRequestPerGenerate ==
    (Constructed /\ result.op = "generate") =>
        /\ result.requests = IF client.is_available THEN 1 ELSE 0
        /\ result.requests <= 1

C22_Witness ==
    /\ Constructed
    /\ client.kind = "OpenAI"
    /\ client.is_available
    /\ result.op = "generate"
    /\ result.backend = "raise"
    /\ result.requests = 1

\* C23: on an available client whose request raises, answers nothing or
\* answers text that is not JSON, OpenAIClient returns the mock insights and
\* GeminiClient raises RuntimeError.
C23_FailurePolicyPerProvider ==
    (/\ Constructed
     /\ result.op = "generate"
     /\ client.is_available
     /\ result.backend \in {"raise", "empty", "bad_json"}) =>
        IF client.kind = "OpenAI"
        THEN result.kind = "return" /\ result.value = "mock_insights"
        ELSE result.kind = "raise" /\ result.exc = "RuntimeError"

-----------------------------------------------------------------------------
(* Claims about the provider selector *)

AutoSelected == pc \in {"ready", "failed"} /\ ai.provider = "auto"

\* the availability check of each provider, on a client built from the
\* wrapper's own arguments
GeminiUsable == GeminiClient_init(ai.api_key, ai.force_mock, env).is_available

OpenAIUsable == OpenAIClient_init(ai.api_key, ai.force_mock, env).is_available

\* C12: with provider AUTO the selector instantiates Gemini before OpenAI,
\* adopts Gemini when it is available and OpenAI only when Gemini is not and
\* OpenAI is, and raises the RuntimeError that names both keys exactly
\* when neither is available.
C12_AutoPrefersGemini ==
    AutoSelected =>
        /\ ai.tried \in {<< >>, << "Gemini" >>, << "OpenAI" >>, << "Gemini", "OpenAI" >>}
        /\ GeminiUsable =>
              /\ pc = "ready"
              /\ ai.provider_name = "Gemini"
              /\ client.kind = "Gemini" /\ client.is_available
              /\ ai.tried = << "Gemini" >>
        /\ (~GeminiUsable /\ OpenAIUsable) =>
              /\ pc = "ready"
              /\ ai.provider_name = "OpenAI"
              /\ client.kind = "OpenAI" /\ client.is_available
        /\ (pc = "failed") <=> (~GeminiUsable /\ ~OpenAIUsable)
        /\ (pc = "failed") =>
              /\ result.kind = "raise"
              /\ result.exc = "RuntimeError"
              /\ result.value = NoKeysMessage
              /\ client = NoClient

\* both keys set, both SDKs present, the Gemini handle cannot be created
C12_Witness ==
    /\ AutoSelected
    /\ pc = "ready"
    /\ env.GEMINI_API_KEY = "g-env" /\ env.genai_sdk /\ ~env.genai_handle_ok
    /\ ai.api_key = None
    /\ ai.tried = << "Gemini", "OpenAI" >>
    /\ ai.provider_name = "OpenAI"
    /\ client.is_available

-----------------------------------------------------------------------------
(* Claims about the dashboard *)

InSession == pc = "session"

\* clients of both providers, available and not
SomeClients ==
    LET envs == { e \in Environments :
                    /\ e.openai_sdk /\ e.genai_sdk
                    /\ e.OPENAI_API_KEY = None /\ e.GEMINI_API_KEY = None
                    /\ e.openai_handle_ok = e.genai_handle_ok }
    IN { OpenAIClient_init("key-arg", fm, e) : fm \in BOOLEAN, e \in envs } \cup
       { GeminiClient_init("key-arg", fm, e) : fm \in BOOLEAN, e \in envs }

\* C13: on a non-empty session table the run ends without an exception, the
\* session's summary is compute_kpis of the table and the page shows the
\* KPIs and the charts, whether the provider returned insights, returned
\* its mock or raised; when it raised, the insights are empty and the error
\* is shown. The same holds of process_transactions with either client.
C13_DashboardSurvivesProvider ==
    (InSession /\ ~Empty(df)) =>
        LET summary == compute_kpis(df)
        IN /\ ~session.raised
           /\ kpis = summary
           /\ {"kpis", "charts"} \subseteq session.shown
           /\ result.op = "generate"
           /\ (result.kind = "raise") =>
                 (session.insights = EmptyInsights /\ "ai_error" \in session.errors)
           /\ (result.kind = "return") => (session.insights = result.value)
           /\ \A c \in SomeClients, o \in GenerateOutcomes :
                 LET p == process_transactions(df, c, o)
                     call == generate_business_insights(c, o)
                 IN /\ ~p.raised
                    /\ p.kpis = summary
                    /\ p.insights = IF call.kind = "raise" THEN EmptyInsights
                                    ELSE call.value

\* an available client whose request raises, on a table of two rows
C13_Witness ==
    /\ InSession
    /\ Len(df.rows) = 2
    /\ client.is_available
    /\ result.kind = "raise" /\ result.requests = 1 /\ result.backend = "raise"
    /\ session.insights = EmptyInsights
    /\ "ai_error" \in session.errors
    /\ {"kpis", "charts", "warning"} = session.shown
    /\ kpis.total_orders = 2

\* C14: a run whose uploaded file cannot be read, at the first attempt and
\* at the re-attempt, shows the load error and leaves the session's table
\* as it was.
C14_FailedUploadKeepsTable ==
    [][(session'.event = "upload_failed") =>
          /\ session'.load.raised /\ session'.load.attempts = 2
          /\ "error_loading_file" \in session'.sidebar
          /\ df' = df]_vars

C14_Witness ==
    /\ InSession
    /\ session.event = "upload_failed"
    /\ session.load.raised
    /\ Len(df.rows) = 2
    /\ "error_loading_file" \in session.sidebar
    /\ "kpis" \in session.shown

\* C21: after every run the session's kpis are compute_kpis of the
\* session's table, and the kpis and the insights are empty when the table
\* has no rows; nothing computed from an earlier table is kept.
C21_SessionKpisAreCurrent ==
    InSession =>
        IF Len(df.rows) = 0
        THEN kpis = EmptyDict /\ session.insights = EmptyInsights
        ELSE kpis = compute_kpis(df)

\* C24: an AIClient built with provider AUTO wraps an available client, and
\* with force_mock set the AUTO construction raises the configuration
\* error, whatever the credentials.
C24_AutoIsNeverMock ==
    AutoSelected =>
        /\ (pc = "ready") =>
              /\ client.kind \in {"OpenAI", "Gemini"}
              /\ client.is_available
              /\ client.handle # None
        /\ ai.force_mock =>
              /\ pc = "failed"
              /\ result.kind = "raise"
              /\ result.exc = "RuntimeError"
              /\ result.value = NoKeysMessage

\* force_mock with a key argument, both environment keys and both SDKs
C24_Witness ==
    /\ AutoSelected
    /\ ai.force_mock
    /\ ai.api_key = "key-arg"
    /\ env.GEMINI_API_KEY = "g-env" /\ env.OPENAI_API_KEY = "sk-env"
    /\ env.genai_sdk /\ env.openai_sdk
    /\ env.genai_handle_ok /\ env.openai_handle_ok
    /\ pc = "failed"
    /\ client = NoClient

====
